---- MODULE Spec2Model ----
(***************************************************************************)
(* The rudder actuation workflow of PhysicsEngineNode                      *)
(* (boat_simulator/nodes/physics_engine/physics_engine_node.py) and the    *)
(* topic logging of DataCollectionNode                                     *)
(* (boat_simulator/nodes/data_collection/data_collection_node.py).         *)
(*                                                                         *)
(* The two nodes are separate processes that share nothing: Spec runs the  *)
(* physics engine node and SpecDC the data collection node, each with the  *)
(* other node's variables held at their initial values.                    *)
(*                                                                         *)
(* Each node is driven by a single-threaded executor: every callback runs   *)
(* to completion before the next one starts, so each callback is one       *)
(* atomic action.  Floating point values (headings, rudder angles, heading *)
(* residuals) are abstracted to small naturals; only their identity        *)
(* matters to the callbacks, which copy them and never compute with them.  *)
(***************************************************************************)
EXTENDS Naturals, Sequences, FiniteSets

\* ---------------------------------------------------------------- bounds
MaxRequests == 3   \* firings of the send-goal timer that get past the decorator
MaxHeading  == 1   \* desired headings are 0..MaxHeading
MaxAngle    == 1   \* rudder angles carried by feedback are 0..MaxAngle
MaxResidual == 1   \* heading residuals carried by results are 0..MaxResidual

MaxWaitRequests == 2  \* as MaxRequests, where the wait for the server is stepped
MaxTopics   == 2   \* (topic name, message type name) pairs in the topics parameter
MaxMsg      == 1   \* messages received on a topic are 1..MaxMsg
MaxTicks    == 3   \* firings of the JSON write timer
json_write_period == 1  \* the write_period_sec parameter, in clock units

Headings  == 0..MaxHeading
Angles    == 0..MaxAngle
Residuals == 0..MaxResidual

\* Optional[T]: None is the empty sequence, a present value v is <<v>>.
None    == << >>
Some(v) == << v >>

\* What future.result() of the send-goal future can be: no goal handle at
\* all, a handle with accepted = False, a handle with accepted = True.
GoalHandles == {"none", "rejected", "accepted"}

VARIABLES
    desired_heading,  \* self.__desired_heading: None or the last DesiredHeading
    rudder_angle,     \* self.__rudder_angle
    requests,         \* one record per goal request the timer callback initiated
    event             \* the callback that ran last, with the input it was given

\* The send-goal timer callback, where its wait for the action server is
\* followed step by step (SpecWait).
VARIABLES
    pc,         \* "idle", or "wait_for_server" while the callback is in the wait
    wait_left,  \* what is left of timeout_sec inside wait_for_server
    server_up   \* whether the action server is available now

wait_vars == << pc, wait_left, server_up >>

\* The data collection node.
VARIABLES
    dc_status,          \* "new", "running", "init_raised", "callback_raised", "shutdown"
    sub_topics,         \* the topics parameter: [name1, type1, name2, type2, ...]
    use_json,           \* the json parameter
    use_bag,            \* the bag parameter
    sub_topic_names,    \* self.__sub_topic_names: topic name -> message type name
    subscriptions,      \* the topics of the subscriptions created, in order
    topic_name,         \* the loop variable of __init_subscriptions, which the
                        \* callback lambdas refer to
    log_errors,         \* the topics an error was logged for
    json_initialized,   \* __init_json_file ran: the JSON attributes exist
    data_to_write,      \* self.__data_to_write
    json_index_counter, \* self.__json_index_counter
    json_file,          \* what was written to self.__json_file, in order
    bag_topics,         \* the topics created in the bag writer
    bag,                \* the (topic, message) pairs written to the bag
    delivered,          \* the topics a message has been received on
    ticks               \* firings of the JSON write timer so far

physics_vars == << desired_heading, rudder_angle, requests, wait_vars >>

dc_vars == << dc_status, sub_topics, use_json, use_bag, sub_topic_names,
              subscriptions, topic_name, log_errors, json_initialized,
              data_to_write, json_index_counter, json_file, bag_topics, bag,
              delivered, ticks >>

vars == << desired_heading, rudder_angle, requests, event, wait_vars, dc_vars >>

\* A request, as the action client and the callbacks registered on it hold it:
\*   state             position in the goal workflow (which callback ran last)
\*   send_goal_future  "none" (send_goal_async never called), "pending", "done"
\*   feedback_cb       the feedback callback is registered for the goal
\*   get_result_future "none" (get_result_async never called), "pending", "done"
\*   result            the value the result callback read from its future
\*   last_feedback     the angle of the last feedback processed for this goal
NewRequest(st, sgf, fcb) ==
    [ state             |-> st,
      send_goal_future  |-> sgf,
      feedback_cb       |-> fcb,
      get_result_future |-> "none",
      result            |-> None,
      last_feedback     |-> None ]

Event(cb, req, val, ok) == [ cb |-> cb, req |-> req, val |-> val, ok |-> ok ]

Ids == 1..Len(requests)

Outstanding == { i \in Ids : requests[i].state \in {"Pending", "Accepted"} }

Terminal == {"Rejected", "Completed", "TimedOut"}

\* Requests for which send_goal_async was called.
Dispatched(reqs) == { i \in 1..Len(reqs) : reqs[i].send_goal_future # "none" }

\* A dict with no key.
EmptyDict == [k \in {} |-> 0]

\* The data collection node before its constructor ran, given its parameters.
DataCollectionNode_new(topics, json, bag_param) ==
    /\ dc_status = "new"
    /\ sub_topics = topics
    /\ use_json = json
    /\ use_bag = bag_param
    /\ sub_topic_names = {}
    /\ subscriptions = << >>
    /\ topic_name = ""
    /\ log_errors = {}
    /\ json_initialized = FALSE
    /\ data_to_write = EmptyDict
    /\ json_index_counter = 0
    /\ json_file = << >>
    /\ bag_topics = {}
    /\ bag = {}
    /\ delivered = {}
    /\ ticks = 0

PhysicsEngineNode_init ==
    /\ desired_heading = None
    /\ rudder_angle = 0
    /\ requests = << >>
    /\ event = Event("init", 0, 0, TRUE)
    /\ pc = "idle"
    /\ wait_left = 0
    /\ server_up = FALSE

Init ==
    /\ PhysicsEngineNode_init
    /\ DataCollectionNode_new(<< >>, FALSE, FALSE)

\* ------------------------------------------------------------ callbacks

desired_heading_sub_callback(msg) ==
    /\ desired_heading' = Some(msg)
    /\ event' = Event("desired_heading", 0, msg, TRUE)
    /\ UNCHANGED << rudder_angle, requests >>

\* The decorator on the send-goal callback: the callback body runs only when
\* every subscription has delivered data.
require_all_subs_active == desired_heading # None

\* Variant: the timeout is logged but the goal is sent all the same (the
\* else of the is_timed_out test is lost).
send_goal_body_no_abort(server_ready) ==
    LET is_timed_out == ~server_ready
        id == Len(requests) + 1
    IN  /\ requests' =
              IF is_timed_out
              THEN Append(requests, NewRequest("TimedOut", "pending", TRUE))
              ELSE Append(requests, NewRequest("Pending", "pending", TRUE))
        /\ event' = Event("send_goal", id, desired_heading[1], server_ready)
        /\ UNCHANGED << desired_heading, rudder_angle >>

\* Variant: the result is requested together with the goal, before the goal
\* response is known.
send_goal_body_early_result(server_ready) ==
    LET is_timed_out == ~server_ready
        id == Len(requests) + 1
    IN  /\ requests' =
              IF is_timed_out
              THEN Append(requests, NewRequest("TimedOut", "none", FALSE))
              ELSE Append(requests,
                          [NewRequest("Pending", "pending", TRUE)
                              EXCEPT !.get_result_future = "pending"])
        /\ event' = Event("send_goal", id, desired_heading[1], server_ready)
        /\ UNCHANGED << desired_heading, rudder_angle >>

\* Variant: the callback waits for the goal response before it returns.
send_goal_body_blocking(server_ready) ==
    LET is_timed_out == ~server_ready
        id == Len(requests) + 1
    IN  /\ requests' =
              IF is_timed_out
              THEN Append(requests, NewRequest("TimedOut", "none", FALSE))
              ELSE Append(requests,
                          [NewRequest("Accepted", "done", TRUE)
                              EXCEPT !.get_result_future = "pending"])
        /\ event' = Event("send_goal", id, desired_heading[1], server_ready)
        /\ UNCHANGED << desired_heading, rudder_angle >>

\* Variant: the goal is sent as constructed, without the desired heading.
send_goal_body_default_goal(server_ready) ==
    LET is_timed_out == ~server_ready
        id == Len(requests) + 1
    IN  /\ requests' =
              IF is_timed_out
              THEN Append(requests, NewRequest("TimedOut", "none", FALSE))
              ELSE Append(requests, NewRequest("Pending", "pending", TRUE))
        /\ event' = Event("send_goal", id, 0, server_ready)
        /\ UNCHANGED << desired_heading, rudder_angle >>

\* The body of the send-goal timer callback; server_ready is what
\* wait_for_server returns within ACTION_SEND_GOAL_TIMEOUT_SEC.
send_goal_body(server_ready) ==
    LET is_timed_out == ~server_ready
        id == Len(requests) + 1
    IN  /\ requests' =
              IF is_timed_out
              THEN Append(requests, NewRequest("TimedOut", "none", FALSE))
              ELSE Append(requests, NewRequest("Pending", "pending", TRUE))
        /\ event' = Event("send_goal", id, desired_heading[1], server_ready)
        /\ UNCHANGED << desired_heading, rudder_angle >>

\* Variant: the timer stops submitting once a request was rejected or timed out.
rudder_action_send_goal_gives_up ==
    /\ Len(requests) < MaxRequests
    /\ \A i \in Ids : requests[i].state \notin {"Rejected", "TimedOut"}
    /\ IF require_all_subs_active
       THEN \E server_ready \in BOOLEAN : send_goal_body(server_ready)
       ELSE /\ event' = Event("subs_inactive", 0, 0, FALSE)
            /\ UNCHANGED << desired_heading, rudder_angle, requests >>

rudder_action_send_goal ==
    /\ Len(requests) < MaxRequests
    /\ IF require_all_subs_active
       THEN \E server_ready \in BOOLEAN : send_goal_body(server_ready)
       ELSE /\ event' = Event("subs_inactive", 0, 0, FALSE)
            /\ UNCHANGED << desired_heading, rudder_angle, requests >>

\* Variant: the return of the rejection branch is lost, so the result is
\* requested for a rejected goal too.
goal_response_callback_no_return(i, goal_handle) ==
    /\ requests[i].send_goal_future = "pending"
    /\ IF goal_handle # "accepted"
       THEN requests' = [requests EXCEPT ![i].send_goal_future = "done",
                                         ![i].state = "Rejected",
                                         ![i].get_result_future = "pending"]
       ELSE requests' = [requests EXCEPT ![i].send_goal_future = "done",
                                         ![i].state = "Accepted",
                                         ![i].get_result_future = "pending"]
    /\ event' = Event("goal_response", i, 0, goal_handle = "accepted")
    /\ UNCHANGED << desired_heading, rudder_angle >>

\* Variant: a rejected goal is sent again at once from the rejection branch.
goal_response_callback_retry(i, goal_handle) ==
    /\ requests[i].send_goal_future = "pending"
    /\ IF goal_handle # "accepted"
       THEN requests' =
              LET rejected == [requests EXCEPT ![i].send_goal_future = "done",
                                               ![i].state = "Rejected"]
              IN  IF Len(requests) < MaxRequests
                  THEN Append(rejected, NewRequest("Pending", "pending", TRUE))
                  ELSE rejected
       ELSE requests' = [requests EXCEPT ![i].send_goal_future = "done",
                                         ![i].state = "Accepted",
                                         ![i].get_result_future = "pending"]
    /\ event' = Event("goal_response", i, 0, goal_handle = "accepted")
    /\ UNCHANGED << desired_heading, rudder_angle >>

\* The done-callback of the send-goal future; it runs once, when the future
\* completes with the goal handle.
rudder_action_goal_response_callback(i, goal_handle) ==
    /\ requests[i].send_goal_future = "pending"
    /\ IF goal_handle # "accepted"
       THEN requests' = [requests EXCEPT ![i].send_goal_future = "done",
                                         ![i].state = "Rejected"]
       ELSE requests' = [requests EXCEPT ![i].send_goal_future = "done",
                                         ![i].state = "Accepted",
                                         ![i].get_result_future = "pending"]
    /\ event' = Event("goal_response", i, 0, goal_handle = "accepted")
    /\ UNCHANGED << desired_heading, rudder_angle >>

\* Variant: the callback reads a default-constructed result, not the future's.
get_result_callback_default_result(i, remaining_angular_distance) ==
    /\ requests[i].get_result_future = "pending"
    /\ requests' = [requests EXCEPT ![i].get_result_future = "done",
                                    ![i].state = "Completed",
                                    ![i].result = Some(0)]
    /\ event' = Event("get_result", i, remaining_angular_distance, TRUE)
    /\ UNCHANGED << desired_heading, rudder_angle >>

\* Variant: the callback finishes the request without reading the result.
get_result_callback_no_result(i, remaining_angular_distance) ==
    /\ requests[i].get_result_future = "pending"
    /\ requests' = [requests EXCEPT ![i].get_result_future = "done",
                                    ![i].state = "Completed"]
    /\ event' = Event("get_result", i, remaining_angular_distance, TRUE)
    /\ UNCHANGED << desired_heading, rudder_angle >>

\* The done-callback of the get-result future.
rudder_action_get_result_callback(i, remaining_angular_distance) ==
    /\ requests[i].get_result_future = "pending"
    /\ requests' = [requests EXCEPT ![i].get_result_future = "done",
                                    ![i].state = "Completed",
                                    ![i].result = Some(remaining_angular_distance)]
    /\ event' = Event("get_result", i, remaining_angular_distance, TRUE)
    /\ UNCHANGED << desired_heading, rudder_angle >>

\* The actuator publishes feedback for a goal it has accepted and not yet
\* finished; the client hands it to the callback registered for that goal.
FeedbackDeliverable(i) ==
    /\ requests[i].feedback_cb
    /\ requests[i].send_goal_future = "done"
    /\ requests[i].get_result_future = "pending"

\* Variant: the reported angle is logged but not stored.
feedback_callback_no_store(i, angle) ==
    /\ FeedbackDeliverable(i)
    /\ requests' = [requests EXCEPT ![i].last_feedback = Some(angle)]
    /\ event' = Event("feedback", i, angle, TRUE)
    /\ UNCHANGED << desired_heading, rudder_angle >>

rudder_action_feedback_callback(i, angle) ==
    /\ FeedbackDeliverable(i)
    /\ rudder_angle' = angle
    /\ requests' = [requests EXCEPT ![i].last_feedback = Some(angle)]
    /\ event' = Event("feedback", i, angle, TRUE)
    /\ UNCHANGED desired_heading

Next ==
    \/ /\ \E msg \in Headings : desired_heading_sub_callback(msg)
       /\ UNCHANGED << wait_vars, dc_vars >>
    \/ /\ rudder_action_send_goal
       /\ UNCHANGED << wait_vars, dc_vars >>
    \/ /\ \E i \in Ids : \E h \in GoalHandles :
              rudder_action_goal_response_callback(i, h)
       /\ UNCHANGED << wait_vars, dc_vars >>
    \/ /\ \E i \in Ids : \E a \in Angles : rudder_action_feedback_callback(i, a)
       /\ UNCHANGED << wait_vars, dc_vars >>
    \/ /\ \E i \in Ids : \E r \in Residuals : rudder_action_get_result_callback(i, r)
       /\ UNCHANGED << wait_vars, dc_vars >>

Spec == Init /\ [][Next]_vars

TypeOK ==
    /\ desired_heading \in {None} \cup { Some(h) : h \in Headings }
    /\ rudder_angle \in Angles
    /\ Len(requests) <= MaxRequests
    /\ \A i \in Ids :
          /\ requests[i].state \in {"Pending", "Accepted"} \cup Terminal
          /\ requests[i].send_goal_future \in {"none", "pending", "done"}
          /\ requests[i].get_result_future \in {"none", "pending", "done"}
          /\ requests[i].feedback_cb \in BOOLEAN

\* ------------------------------------- the wait for the action server

\* Constants.ACTION_SEND_GOAL_TIMEOUT_SEC, in sleeps of wait_for_server.
ACTION_SEND_GOAL_TIMEOUT_SEC == 2

\* The timer fires: the callback builds the goal and enters wait_for_server.
send_goal_begin ==
    /\ pc = "idle"
    /\ Len(requests) < MaxWaitRequests
    /\ IF require_all_subs_active
       THEN /\ pc' = "wait_for_server"
            /\ wait_left' = ACTION_SEND_GOAL_TIMEOUT_SEC
            /\ event' = Event("send_goal_begin", Len(requests) + 1,
                              desired_heading[1], TRUE)
       ELSE /\ event' = Event("subs_inactive", 0, 0, FALSE)
            /\ UNCHANGED << pc, wait_left >>
    /\ UNCHANGED << desired_heading, rudder_angle, requests, server_up >>

\* Variant: wait_for_server is called without timeout_sec, so nothing runs out.
wait_for_server_sleep_no_timeout ==
    /\ pc = "wait_for_server"
    /\ ~server_up
    /\ UNCHANGED << desired_heading, rudder_angle, requests, event, wait_vars >>

\* wait_for_server(timeout_sec = ...): while the server is not ready and
\* time is left, sleep and count the sleep off the timeout.
wait_for_server_sleep ==
    /\ pc = "wait_for_server"
    /\ ~server_up
    /\ wait_left > 0
    /\ wait_left' = wait_left - 1
    /\ UNCHANGED << desired_heading, rudder_angle, requests, event, pc, server_up >>

\* wait_for_server returns whether the server is ready, and the callback
\* takes the branch of is_timed_out and returns.
send_goal_end ==
    /\ pc = "wait_for_server"
    /\ server_up \/ wait_left = 0
    /\ send_goal_body(server_up)
    /\ pc' = "idle"
    /\ wait_left' = 0
    /\ UNCHANGED server_up

\* The action server comes up or goes away.
server_changes ==
    /\ server_up' = ~server_up
    /\ UNCHANGED << desired_heading, rudder_angle, requests, event, pc, wait_left >>

\* The executor runs no other callback while one is running.
WaitNext ==
    \/ /\ pc = "idle"
       /\ \E msg \in Headings : desired_heading_sub_callback(msg)
       /\ UNCHANGED << wait_vars, dc_vars >>
    \/ send_goal_begin /\ UNCHANGED dc_vars
    \/ wait_for_server_sleep /\ UNCHANGED dc_vars
    \/ send_goal_end /\ UNCHANGED dc_vars
    \/ server_changes /\ UNCHANGED dc_vars
    \/ /\ pc = "idle"
       /\ \E i \in Ids : \E h \in GoalHandles :
              rudder_action_goal_response_callback(i, h)
       /\ UNCHANGED << wait_vars, dc_vars >>
    \/ /\ pc = "idle"
       /\ \E i \in Ids : \E a \in Angles : rudder_action_feedback_callback(i, a)
       /\ UNCHANGED << wait_vars, dc_vars >>
    \/ /\ pc = "idle"
       /\ \E i \in Ids : \E r \in Residuals : rudder_action_get_result_callback(i, r)
       /\ UNCHANGED << wait_vars, dc_vars >>

\* The callback that is running keeps running: time passes inside the wait.
SpecWait ==
    /\ Init
    /\ [][WaitNext]_vars
    /\ WF_vars((wait_for_server_sleep \/ send_goal_end) /\ UNCHANGED dc_vars)

\* ------------------------------------------------ data collection node

TopicNames == {"t1", "t2"}
Msgs       == 1..MaxMsg

\* self.__msg_types_dict: the names of the classes of custom_interfaces.msg.
msg_types_dict == {"GPS"}
\* The message type names a topics parameter may give: one known, one not.
MsgTypeNames == msg_types_dict \cup {"NoSuchMsg"}

\* The topics parameters considered: up to MaxTopics (name, type) pairs.
RECURSIVE TopicsParams(_)
TopicsParams(n) ==
    IF n = 0 THEN { << >> }
    ELSE LET shorter == TopicsParams(n - 1)
         IN  shorter \cup
             { << t, m >> \o rest : t \in TopicNames, m \in MsgTypeNames,
                                    rest \in { r \in shorter : Len(r) = 2 * (n - 1) } }

\* lst[::2] and lst[1::2]
RECURSIVE EvenIndexed(_)
EvenIndexed(lst) ==
    IF lst = << >> THEN << >>
    ELSE << Head(lst) >> \o (IF Len(lst) < 2 THEN << >> ELSE EvenIndexed(Tail(Tail(lst))))
OddIndexed(lst) == IF lst = << >> THEN << >> ELSE EvenIndexed(Tail(lst))

\* The values a dict of data to write holds, with Python's truth value of
\* each: None, the ordered dict of a message (it has fields, so it is not
\* empty), a float.
NoneValue     == [kind |-> "none",  v |-> 0]
MsgValue(m)   == [kind |-> "msg",   v |-> m]
FloatValue(x) == [kind |-> "float", v |-> x]
Truthy(value) ==
    CASE value.kind = "none"  -> FALSE
      [] value.kind = "msg"   -> TRUE
      [] value.kind = "float" -> value.v # 0

\* all(d.values())
AllValues(d) == \A k \in DOMAIN d : Truthy(d[k])

\* d[key] = value
DictSet(d, key, value) ==
    [k \in DOMAIN d \cup {key} |-> IF k = key THEN value ELSE d[k]]

\* What is written to the JSON file, piece by piece.
Token(tok, index, data) == [tok |-> tok, index |-> index, data |-> data]
OpenArray    == Token("[", 0, EmptyDict)
Comma        == Token(",", 0, EmptyDict)
CloseArray   == Token("]", 0, EmptyDict)
Entry(index, data) == Token("entry", index, data)

\* The loop of __init_subscriptions over zip(topic_names, topic_types); acc
\* is the state the loop has built so far.
RECURSIVE init_subscriptions_loop(_, _, _)
init_subscriptions_loop(names, types, acc) ==
    IF names = << >> \/ types = << >>
    THEN acc
    ELSE LET name == Head(names)
             msg_type_name == Head(types)
             known == msg_type_name \in msg_types_dict
             logged == [acc EXCEPT
                 !.log_errors = IF known THEN @ ELSE @ \cup {name},
                 !.topic_name = name,
                 !.sub_topic_names =
                     { p \in @ : p[1] # name } \cup { << name, msg_type_name >> }]
         IN  IF ~known
             THEN \* self.__msg_types_dict[msg_type_name] raises KeyError
                  [logged EXCEPT !.raised = TRUE]
             ELSE init_subscriptions_loop(Tail(names), Tail(types),
                      [logged EXCEPT !.subscriptions = Append(@, name)])

init_subscriptions(topics) ==
    init_subscriptions_loop(EvenIndexed(topics), OddIndexed(topics),
        [ log_errors |-> {}, topic_name |-> "", sub_topic_names |-> {},
          subscriptions |-> << >>, raised |-> FALSE ])

\* DataCollectionNode.__init__
DataCollectionNode_init ==
    /\ dc_status = "new"
    /\ LET subs == init_subscriptions(sub_topics)
           keys == { p[1] : p \in subs.sub_topic_names }
       IN  /\ log_errors' = subs.log_errors
           /\ topic_name' = subs.topic_name
           /\ sub_topic_names' = subs.sub_topic_names
           /\ subscriptions' = subs.subscriptions
           /\ IF subs.raised
              THEN /\ dc_status' = "init_raised"
                   /\ UNCHANGED << json_initialized, data_to_write, json_file,
                                   bag_topics >>
              ELSE /\ dc_status' = "running"
                   /\ json_initialized' = use_json
                   /\ data_to_write' =
                          IF use_json THEN [k \in keys |-> NoneValue] ELSE EmptyDict
                   /\ json_file' = IF use_json THEN << OpenArray >> ELSE << >>
                   /\ bag_topics' = IF use_bag THEN keys ELSE {}
    /\ event' = Event("init", 0, 0, TRUE)
    /\ UNCHANGED << sub_topics, use_json, use_bag, json_index_counter, bag,
                    delivered, ticks >>

\* The topic name the callback of the j-th subscription passes on:
\* lambda msg: self.__general_sub_callback(msg, topic_name) reads the loop
\* variable when it is called, after the loop has ended.
lambda_topic_name(j) == topic_name

general_sub_callback(msg, name) ==
    /\ data_to_write' =
          IF use_json THEN DictSet(data_to_write, name, MsgValue(msg))
          ELSE data_to_write
    /\ bag' = IF use_bag THEN bag \cup { << name, msg >> } ELSE bag

\* A message msg arrives on the topic of the j-th subscription.
sub_callback(j, msg) ==
    /\ dc_status = "running"
    /\ j \in 1..Len(subscriptions)
    /\ general_sub_callback(msg, lambda_topic_name(j))
    /\ delivered' = delivered \cup { subscriptions[j] }
    /\ event' = Event("sub_callback", j, msg, TRUE)
    /\ UNCHANGED << dc_status, sub_topics, use_json, use_bag, sub_topic_names,
                    subscriptions, topic_name, log_errors, json_initialized,
                    json_index_counter, json_file, bag_topics, ticks >>

\* Variant: the entry is written without the all(...) test.
write_to_json_unchecked ==
    /\ dc_status = "running"
    /\ ticks < MaxTicks
    /\ ticks' = ticks + 1
    /\ event' = Event("write_to_json", ticks + 1, 0, TRUE)
    /\ IF ~json_initialized
       THEN /\ dc_status' = "callback_raised"
            /\ UNCHANGED << data_to_write, json_index_counter, json_file >>
       ELSE /\ dc_status' = dc_status
            /\ LET time_in_seconds == json_index_counter * json_write_period
                   data == DictSet(data_to_write, "time",
                                   FloatValue(time_in_seconds))
                   item_to_write == Entry(json_index_counter, data)
               IN  /\ data_to_write' = data
                   /\ json_file' =
                         IF json_index_counter > 0
                         THEN json_file \o << Comma, item_to_write >>
                         ELSE Append(json_file, item_to_write)
                   /\ json_index_counter' = json_index_counter + 1
    /\ UNCHANGED << sub_topics, use_json, use_bag, sub_topic_names,
                    subscriptions, topic_name, log_errors, json_initialized,
                    bag_topics, bag, delivered >>

\* Variant: the separator test reads >= 0, so the first entry gets a comma too.
write_to_json_comma_first ==
    /\ dc_status = "running"
    /\ ticks < MaxTicks
    /\ ticks' = ticks + 1
    /\ event' = Event("write_to_json", ticks + 1, 0, TRUE)
    /\ IF ~json_initialized
       THEN /\ dc_status' = "callback_raised"
            /\ UNCHANGED << data_to_write, json_index_counter, json_file >>
       ELSE /\ dc_status' = dc_status
            /\ IF AllValues(data_to_write)
               THEN LET time_in_seconds == json_index_counter * json_write_period
                        data == DictSet(data_to_write, "time",
                                        FloatValue(time_in_seconds))
                        item_to_write == Entry(json_index_counter, data)
                    IN  /\ data_to_write' = data
                        /\ json_file' = json_file \o << Comma, item_to_write >>
                        /\ json_index_counter' = json_index_counter + 1
               ELSE UNCHANGED << data_to_write, json_index_counter, json_file >>
    /\ UNCHANGED << sub_topics, use_json, use_bag, sub_topic_names,
                    subscriptions, topic_name, log_errors, json_initialized,
                    bag_topics, bag, delivered >>

\* The JSON write timer fires.  The timer is created whatever the json
\* parameter is; without __init_json_file the attributes it reads do not
\* exist and the callback raises AttributeError, which ends rclpy.spin.
write_to_json ==
    /\ dc_status = "running"
    /\ ticks < MaxTicks
    /\ ticks' = ticks + 1
    /\ event' = Event("write_to_json", ticks + 1, 0, TRUE)
    /\ IF ~json_initialized
       THEN /\ dc_status' = "callback_raised"
            /\ UNCHANGED << data_to_write, json_index_counter, json_file >>
       ELSE /\ dc_status' = dc_status
            /\ IF AllValues(data_to_write)
               THEN LET time_in_seconds == json_index_counter * json_write_period
                        data == DictSet(data_to_write, "time",
                                        FloatValue(time_in_seconds))
                        item_to_write == Entry(json_index_counter, data)
                    IN  /\ data_to_write' = data
                        /\ json_file' =
                              IF json_index_counter > 0
                              THEN json_file \o << Comma, item_to_write >>
                              ELSE Append(json_file, item_to_write)
                        /\ json_index_counter' = json_index_counter + 1
               ELSE UNCHANGED << data_to_write, json_index_counter, json_file >>
    /\ UNCHANGED << sub_topics, use_json, use_bag, sub_topic_names,
                    subscriptions, topic_name, log_errors, json_initialized,
                    bag_topics, bag, delivered >>

\* rclpy.shutdown() runs the shutdown callback, once.
shutdown_callback ==
    /\ dc_status = "running"
    /\ dc_status' = "shutdown"
    /\ json_file' = IF use_json THEN Append(json_file, CloseArray) ELSE json_file
    /\ event' = Event("shutdown", 0, 0, TRUE)
    /\ UNCHANGED << sub_topics, use_json, use_bag, sub_topic_names,
                    subscriptions, topic_name, log_errors, json_initialized,
                    data_to_write, json_index_counter, bag_topics, bag,
                    delivered, ticks >>

DCInit ==
    /\ PhysicsEngineNode_init
    /\ \E topics \in TopicsParams(MaxTopics) : \E json \in BOOLEAN :
          \E bag_param \in BOOLEAN : DataCollectionNode_new(topics, json, bag_param)

DCNext ==
    \/ DataCollectionNode_init /\ UNCHANGED physics_vars
    \/ /\ \E j \in 1..Len(subscriptions) : \E msg \in Msgs : sub_callback(j, msg)
       /\ UNCHANGED physics_vars
    \/ write_to_json /\ UNCHANGED physics_vars
    \/ shutdown_callback /\ UNCHANGED physics_vars

SpecDC == DCInit /\ [][DCNext]_vars

\* --------------------------------------------------------------- claims

\* The callback `cb` ran for request i in this step.
Ran(cb, i) == event' # event /\ event'.cb = cb /\ event'.req = i

\* C1: in every reachable state at most one request is outstanding (Pending
\* or Accepted): a firing of the send-goal timer while a request is
\* outstanding dispatches no second goal.
C1_AtMostOneOutstanding == Cardinality(Outstanding) <= 1

\* C2: when the result event of an accepted request is delivered, the request
\* becomes Completed and its result is the residual the event carried; every
\* Completed request went through acceptance and holds a residual.
C2_ResultStep ==
    \A i \in Ids :
        (requests[i].get_result_future = "pending"
            /\ requests'[i].get_result_future = "done")
        => /\ Ran("get_result", i)
           /\ requests[i].state = "Accepted"
           /\ requests'[i].state = "Completed"
           /\ requests'[i].result = Some(event'.val)
C2_CompletedWithResult == [][C2_ResultStep]_vars

C2_Witness ==
    /\ event.cb = "get_result"
    /\ event.val = MaxResidual
    /\ requests[event.req].state = "Completed"
    /\ requests[event.req].result = Some(MaxResidual)
    /\ requests[event.req].last_feedback # None

\* C3: a firing of the send-goal timer whose wait for the actuator server
\* times out leaves the new request TimedOut and dispatches nothing: no goal
\* is sent and no goal-response, feedback or result callback is registered,
\* then or later.
C3_TimedOutNotDispatched ==
    \A i \in Ids :
        /\ (event.cb = "send_goal" /\ event.req = i /\ ~event.ok)
              => requests[i].state = "TimedOut"
        /\ requests[i].state = "TimedOut"
              => /\ requests[i].send_goal_future = "none"
                 /\ ~requests[i].feedback_cb
                 /\ requests[i].get_result_future = "none"
                 /\ i \notin Dispatched(requests)

C3_Witness ==
    /\ Len(requests) = 2
    /\ requests[1].state = "TimedOut"
    /\ event.cb = "send_goal" /\ event.req = 2 /\ ~event.ok
    /\ requests[2].state = "TimedOut"

\* C4: a request whose goal response is a rejection (no goal handle, or a
\* handle that is not accepted) is Rejected, has no result callback
\* registered, and no later step processes a feedback or result event for it
\* or changes it.
C4_RejectedStep ==
    \A i \in Ids :
        /\ (Ran("goal_response", i) /\ ~event'.ok)
              => /\ requests'[i].state = "Rejected"
                 /\ requests'[i].get_result_future = "none"
        /\ requests[i].state = "Rejected"
              => /\ requests'[i] = requests[i]
                 /\ ~Ran("feedback", i)
                 /\ ~Ran("get_result", i)
C4_RejectedIsFinal == [][C4_RejectedStep]_vars

C4_Witness ==
    /\ Len(requests) = 2
    /\ requests[1].state = "Rejected"
    /\ requests[1].get_result_future = "none"
    /\ requests[2].state = "Completed"

\* C5: the state of a request changes only along Pending -> Accepted,
\* Pending -> Rejected, Pending -> TimedOut and Accepted -> Completed; a new
\* request starts Pending or TimedOut; Rejected, Completed and TimedOut are
\* never left, and requests are never dropped.
AllowedEdges ==
    { << "Pending", "Accepted" >>, << "Pending", "Rejected" >>,
      << "Pending", "TimedOut" >>, << "Accepted", "Completed" >> }
C5_TransitionStep ==
    /\ Len(requests') >= Len(requests)
    /\ \A i \in Ids :
          \/ requests'[i].state = requests[i].state
          \/ << requests[i].state, requests'[i].state >> \in AllowedEdges
    /\ \A i \in (1..Len(requests')) \ Ids :
          requests'[i].state \in {"Pending", "TimedOut"}
C5_StateMachine == [][C5_TransitionStep]_vars

C5_Witness ==
    /\ Len(requests) = 2
    /\ requests[1].state = "Completed"
    /\ requests[2].state = "Rejected"
    /\ event.cb = "goal_response" /\ event.req = 2

\* C6: a feedback event sets the node's rudder angle to the angle the event
\* carries and changes nothing else: the desired heading, the number of
\* requests and every request's state, futures, callbacks and result stay.
C6_FeedbackStep ==
    \A i \in Ids :
        Ran("feedback", i)
        => /\ rudder_angle' = event'.val
           /\ desired_heading' = desired_heading
           /\ Len(requests') = Len(requests)
           /\ requests' = [requests EXCEPT ![i].last_feedback = Some(event'.val)]
C6_FeedbackFrame == [][C6_FeedbackStep]_vars

C6_Witness ==
    /\ event.cb = "feedback"
    /\ event.val = MaxAngle
    /\ rudder_angle = MaxAngle
    /\ requests[event.req].state = "Accepted"
    /\ Len(requests) = 2

\* C7: whenever some request is in a terminal state, the send-goal timer
\* callback can fire again and its firing adds one fresh request (Pending
\* when the server is available, TimedOut otherwise).
FreshRequestAdded ==
    /\ Len(requests') = Len(requests) + 1
    /\ requests'[Len(requests')].state \in {"Pending", "TimedOut"}
    /\ requests'[Len(requests')].result = None
    /\ requests'[Len(requests')].last_feedback = None
    /\ \A i \in Ids : requests'[i] = requests[i]
C7_AcceptsNewSubmission ==
    ((\E i \in Ids : requests[i].state \in Terminal) /\ Len(requests) < MaxRequests)
    => /\ ENABLED (rudder_action_send_goal /\ FreshRequestAdded)
       /\ ~ ENABLED (rudder_action_send_goal /\ ~FreshRequestAdded)

C7_Witness ==
    /\ Len(requests) = 2
    /\ requests[1].state = "Rejected"
    /\ event.cb = "send_goal" /\ event.req = 2 /\ event.ok
    /\ requests[2].state = "Pending"

\* C8: a goal is dispatched only by the send-goal timer callback, one per
\* firing: no step of the goal-response, feedback or result callback adds a
\* dispatched request.
C8_DispatchStep ==
    Dispatched(requests') # Dispatched(requests)
    => /\ event'.cb = "send_goal" /\ event'.ok
       /\ Dispatched(requests') = Dispatched(requests) \cup {Len(requests) + 1}
C8_NoAutomaticRetry == [][C8_DispatchStep]_vars

C8_Witness ==
    /\ Len(requests) = 1
    /\ requests[1].state = "Rejected"
    /\ event.cb = "goal_response" /\ event.req = 1 /\ ~event.ok
    /\ Dispatched(requests) = {1}

\* C9: when the result callback of a request runs, the rudder angle it
\* reports is the angle of the last feedback received for that same request.
C9_ReportedAngleIsOwnFeedback ==
    (event.cb = "get_result" /\ requests[event.req].last_feedback # None)
    => rudder_angle = requests[event.req].last_feedback[1]

\* C10: a request holds a result value exactly when its state is Completed.
C10_ResultIffCompleted ==
    \A i \in Ids : (requests[i].result # None) <=> (requests[i].state = "Completed")

C10_Witness ==
    /\ Len(requests) = 2
    /\ requests[1].state = "Completed" /\ requests[1].result # None
    /\ requests[2].state = "Accepted" /\ requests[2].result = None

\* C11: the send-goal timer callback returns with the dispatched request
\* Pending and its outcome unknown; a request leaves Pending only in a later
\* goal-response callback, its feedback angle changes only in a feedback
\* callback and its result is set only in a result callback.
C11_NonBlockingStep ==
    \A i \in 1..Len(requests') :
        IF i \in Ids
        THEN /\ (requests[i].state = "Pending" /\ requests'[i].state # "Pending")
                   => Ran("goal_response", i)
             /\ requests'[i].last_feedback # requests[i].last_feedback
                   => Ran("feedback", i)
             /\ requests'[i].result # requests[i].result
                   => Ran("get_result", i)
        ELSE i \in Dispatched(requests')
                => /\ Ran("send_goal", i)
                   /\ requests'[i].state = "Pending"
                   /\ requests'[i].send_goal_future = "pending"
                   /\ requests'[i].get_result_future = "none"
                   /\ requests'[i].result = None
C11_SubmitDoesNotBlock == [][C11_NonBlockingStep]_vars

C11_Witness ==
    /\ Len(requests) = 1
    /\ event.cb = "goal_response" /\ event.req = 1 /\ event.ok
    /\ requests[1].state = "Accepted"

SubscribedTopics == { subscriptions[j] : j \in 1..Len(subscriptions) }

\* The JSON write timer fired in this step.
WriteTimerFired == ticks' = ticks + 1

\* C13: a message received on subscribed topic T is recorded under key T of
\* the data to write and written to the bag under topic T, and the data
\* recorded under every other key stays as it was.
C13_MessageStep ==
    \A j \in 1..Len(subscriptions) :
        Ran("sub_callback", j)
        => LET T == subscriptions[j]
               msg == event'.val
           IN  /\ use_json
                    => /\ data_to_write'[T] = MsgValue(msg)
                       /\ \A k \in DOMAIN data_to_write \ {T} :
                             data_to_write'[k] = data_to_write[k]
               /\ use_bag => << T, msg >> \in bag'
C13_MessageRecordedUnderItsTopic == [][C13_MessageStep]_vars

\* C14: once every subscribed topic has delivered a message, each firing of
\* the JSON write timer appends one entry, with the index counter's value as
\* index and index times the write period as time, and adds one to the
\* counter.
C14_WriteStep ==
    (WriteTimerFired /\ json_initialized /\ subscriptions # << >>
        /\ SubscribedTopics \subseteq delivered)
    => /\ json_index_counter' = json_index_counter + 1
       /\ Len(json_file') > Len(json_file)
       /\ json_file'[Len(json_file')].tok = "entry"
       /\ json_file'[Len(json_file')].index = json_index_counter
       /\ json_file'[Len(json_file')].data["time"] =
             FloatValue(json_index_counter * json_write_period)
C14_EveryTickAppendsAnEntry == [][C14_WriteStep]_vars

\* C15: a firing of the JSON write timer while some subscribed topic has
\* delivered no message leaves the JSON file and the index counter as they
\* were.
C15_WriteStep ==
    (WriteTimerFired /\ json_initialized /\ SubscribedTopics \ delivered # {})
    => /\ json_file' = json_file
       /\ json_index_counter' = json_index_counter
C15_NoWriteBeforeAllTopics == [][C15_WriteStep]_vars

C15_Witness ==
    /\ dc_status = "running"
    /\ json_initialized
    /\ event.cb = "write_to_json"
    /\ delivered # {}
    /\ SubscribedTopics \ delivered # {}
    /\ json_file = << OpenArray >>
    /\ json_index_counter = 0

\* C16: with JSON logging on, the file starts with the one opening bracket,
\* holds the entries in index order with a comma before every entry but the
\* first, and gets the one closing bracket at shutdown, as its last piece.
Count(f, token) == Cardinality({ i \in 1..Len(f) : f[i] = token })
WellFormedEntries(b) ==
    /\ Len(b) = 0 \/ Len(b) % 2 = 1
    /\ \A i \in 1..Len(b) :
          IF i % 2 = 1
          THEN b[i].tok = "entry" /\ b[i].index = (i - 1) \div 2
          ELSE b[i] = Comma
C16_JsonFileWellFormed ==
    (use_json /\ dc_status \in {"running", "shutdown"})
    => /\ Len(json_file) >= 1
       /\ json_file[1] = OpenArray
       /\ Count(json_file, OpenArray) = 1
       /\ IF dc_status = "shutdown"
          THEN /\ Len(json_file) >= 2
               /\ json_file[Len(json_file)] = CloseArray
               /\ Count(json_file, CloseArray) = 1
               /\ WellFormedEntries(SubSeq(json_file, 2, Len(json_file) - 1))
          ELSE /\ Count(json_file, CloseArray) = 0
               /\ WellFormedEntries(SubSeq(json_file, 2, Len(json_file)))

C16_Witness ==
    /\ use_json
    /\ dc_status = "shutdown"
    /\ Len(json_file) = 3
    /\ json_file[2].tok = "entry"
    /\ delivered # {}

\* C17: with JSON logging off, no firing of the write timer and no received
\* message raises or touches the JSON state, and the node keeps running.
C17_JsonDisabledIsHarmless ==
    ~use_json
    => /\ dc_status # "callback_raised"
       /\ data_to_write = EmptyDict
       /\ json_index_counter = 0
       /\ json_file = << >>

\* C19: for every pair of the topics parameter whose message type name is
\* not a known message type, an error is logged for its topic, and the
\* constructor does not raise.
UnknownTypeTopics ==
    { EvenIndexed(sub_topics)[i] :
        i \in { n \in 1..Len(OddIndexed(sub_topics)) :
                  OddIndexed(sub_topics)[n] \notin msg_types_dict } }
C19_UnknownTypeLoggedNotRaised ==
    (dc_status # "new" /\ UnknownTypeTopics # {})
    => /\ UnknownTypeTopics \subseteq log_errors
       /\ dc_status # "init_raised"

\* C12: a firing of the send-goal timer callback that has entered the wait
\* for the action server leaves it and returns, and it returns with the new
\* request either Pending (server available, goal dispatched) or TimedOut.
C12_WaitEndStep ==
    (pc = "wait_for_server" /\ pc' = "idle")
    => /\ Len(requests') = Len(requests) + 1
       /\ requests'[Len(requests')].state = (IF server_up THEN "Pending" ELSE "TimedOut")
       /\ ~server_up => wait_left = 0
C12_SendGoalTerminates ==
    /\ [][C12_WaitEndStep]_vars
    /\ (pc = "wait_for_server") ~> (pc = "idle")

C12_Witness ==
    /\ pc = "idle"
    /\ event.cb = "send_goal" /\ ~event.ok /\ event.req = 2
    /\ requests[2].state = "TimedOut"
    /\ requests[1].state = "Pending"

====
